---- MODULE Spec2Model ----
(***************************************************************************)
(* Call bridge between a telephony media stream and a realtime AI session. *)
(*                                                                         *)
(* The repository holds several variants of the bridge script.  Four are  *)
(* modelled here:                                                          *)
(*   - the "end-call" bridge, src/unnamed/part_001 lines 1-570 (endCall,   *)
(*     final message exchange, Silent Requests, duration-limit timer);     *)
(*     specifications Spec and FairSpec for one call, SilentSpec and       *)
(*     FairSilentSpec for Silent Requests and two concurrent calls,        *)
(*     FarewellSpec for farewell detection over many transcripts,          *)
(*     DriftSpec for barge-in under a moving clock, ControlSpec for        *)
(*     telephony control events and AI error events, BargeInSpec and       *)
(*     TwoCallSpec for two concurrent calls sharing lastAssistantItem and  *)
(*     callDurationTimer;                                                  *)
(*   - the "summary-request" bridge, src/index.js lines 150-708            *)
(*     (sessionInitialized guard, audio-inactivity close timer);           *)
(*     specifications SpecB and FairSpecB (definitions prefixed B);        *)
(*   - the Redis-backed script, src/index.js lines 1-149 (prompt stored    *)
(*     by /incoming-call, read back by the media-stream handler);          *)
(*     specification SpecR (definitions prefixed R);                       *)
(*   - the simple relay, src/unnamed/part_003 (handlers are module-level   *)
(*     functions that receive the session's values as arguments);          *)
(*     specification SimpleSpec.                                           *)
(*                                                                         *)
(* Strings whose characters the code inspects (transcripts, base64         *)
(* payloads) are sequences of one-character strings.                       *)
(*                                                                         *)
(* Library semantics assumed (the libraries are not part of the            *)
(* repository): ws send() throws while the socket is CONNECTING and        *)
(* silently drops the message once it is CLOSING or CLOSED; close() moves  *)
(* an OPEN socket to CLOSING and the 'close' event follows later;          *)
(* `connection` and `connection.socket` denote the same telephony socket.  *)
(* A resolved promise's continuation runs before the next I/O event, so it *)
(* is part of the step that resolved it.                                   *)
(***************************************************************************)
EXTENDS Integers, Sequences, FiniteSets, TLC

(***************************************************************************)
(* Bounds of the model.                                                    *)
(***************************************************************************)
MaxMedia == 2
MaxDelta == 2
MaxStart == 1
MaxSpeech == 1
MaxResponseDone == 1
MaxTranscripts == 1
MaxTextDelta == 1
MaxTextDone == 2
MaxEndCalls == 2
MaxSilent == 2
MaxTaggedDelta == 2
MaxTaggedDone == 2
MaxClose == 1
MaxControl == 2
MaxBargeIn == 2
MaxCalls == 2
MaxAiErrors == 1

Null == "null"

(***************************************************************************)
(* Text helpers.                                                           *)
(***************************************************************************)
UpperChars ==
  <<"A","B","C","D","E","F","G","H","I","J","K","L","M",
    "N","O","P","Q","R","S","T","U","V","W","X","Y","Z">>

LowerChars ==
  <<"a","b","c","d","e","f","g","h","i","j","k","l","m",
    "n","o","p","q","r","s","t","u","v","w","x","y","z">>

LowerChar(c) ==
  IF \E i \in 1..26 : UpperChars[i] = c
  THEN LowerChars[CHOOSE i \in 1..26 : UpperChars[i] = c]
  ELSE c

\* a conversion that keeps the letter case
keepCase(text) == text

toLowerCase(text) == [i \in 1..Len(text) |-> LowerChar(text[i])]

includes(text, phrase) ==
  \E i \in 1..(Len(text) - Len(phrase) + 1) :
    SubSeq(text, i, i + Len(phrase) - 1) = phrase

goodbyes ==
  << <<"g","o","o","d","b","y","e">>,
     <<"b","y","e">>,
     <<"s","e","e"," ","y","o","u">>,
     <<"f","a","r","e","w","e","l","l">>,
     <<"t","a","l","k"," ","t","o"," ","y","o","u"," ","l","a","t","e","r">>,
     <<"t","a","k","e"," ","c","a","r","e">>,
     <<"s","o"," ","l","o","n","g">>,
     <<"h","a","v","e"," ","a"," ","g","r","e","a","t"," ","d","a","y">> >>

checkForGoodbye(text) ==
  LET textLower == toLowerCase(text)
  IN  \E k \in 1..Len(goodbyes) : includes(textLower, goodbyes[k])

(***************************************************************************)
(* Buffer.from(delta, "base64").toString("base64"): decode leniently       *)
(* (characters outside the alphabet, padding included, are skipped), then  *)
(* encode canonically with padding.                                        *)
(***************************************************************************)
B64Chars ==
  UpperChars \o LowerChars \o
  <<"0","1","2","3","4","5","6","7","8","9","+","/">>

IsB64Char(c) == \E i \in 1..64 : B64Chars[i] = c

B64Value(c) == (CHOOSE i \in 1..64 : B64Chars[i] = c) - 1

B64Sextets(str) ==
  LET kept == SelectSeq(str, IsB64Char)
  IN  [i \in 1..Len(kept) |-> B64Value(kept[i])]

RECURSIVE SextetsToBytes(_)
SextetsToBytes(sx) ==
  IF Len(sx) >= 4
  THEN LET n == sx[1] * 262144 + sx[2] * 4096 + sx[3] * 64 + sx[4]
       IN  << n \div 65536, (n \div 256) % 256, n % 256 >>
             \o SextetsToBytes(SubSeq(sx, 5, Len(sx)))
  ELSE IF Len(sx) = 3
  THEN LET n == sx[1] * 4096 + sx[2] * 64 + sx[3]
       IN  << n \div 1024, (n \div 4) % 256 >>
  ELSE IF Len(sx) = 2
  THEN << (sx[1] * 64 + sx[2]) \div 16 >>
  ELSE << >>

Base64Decode(str) == SextetsToBytes(B64Sextets(str))

RECURSIVE Base64Encode(_)
Base64Encode(bytes) ==
  IF Len(bytes) >= 3
  THEN LET n == bytes[1] * 65536 + bytes[2] * 256 + bytes[3]
       IN  << B64Chars[(n \div 262144) + 1], B64Chars[((n \div 4096) % 64) + 1],
              B64Chars[((n \div 64) % 64) + 1], B64Chars[(n % 64) + 1] >>
             \o Base64Encode(SubSeq(bytes, 4, Len(bytes)))
  ELSE IF Len(bytes) = 2
  THEN LET n == (bytes[1] * 256 + bytes[2]) * 4
       IN  << B64Chars[(n \div 4096) + 1], B64Chars[((n \div 64) % 64) + 1],
              B64Chars[(n % 64) + 1], "=" >>
  ELSE IF Len(bytes) = 1
  THEN LET n == bytes[1] * 16
       IN  << B64Chars[(n \div 64) + 1], B64Chars[(n % 64) + 1], "=", "=" >>
  ELSE << >>

ReencodeBase64(delta) == Base64Encode(Base64Decode(delta))

(***************************************************************************)
(* Values the environment may deliver.                                     *)
(***************************************************************************)
Sessions == {1, 2}

\* telephony 'media' payloads (forwarded untouched)
MediaPayloads == { <<"Q","Q","=","=">>, <<"Q","U","I","=">> }

\* response.audio.delta payloads: canonical, unpadded, empty
DeltaPayloads == { <<"Q","Q","=","=">>, <<"Q","Q">>, << >> }

\* transcripts
TextBye == <<"B","y","e">>
TextOk == <<"o","k">>
Texts == { TextBye, TextOk }

\* text-delta payloads
TextDeltas == { <<"x">> }

ItemIds == { "item_A", "item_B" }
StreamSids == { "MZ1" }
CallSids == { "CA123" }
OffsetsMs == { 0, 1 }
ClockValues == { 0 }

Undefined == << "undefined" >>

PromptText == "You are Acme support."
SYSTEM_MESSAGE == "SYSTEM_MESSAGE"

Digits == <<"0","1","2","3","4","5","6","7","8","9">>

\* Number.prototype.toString for the small identifiers of the model
toString(n) ==
  IF n < 10 THEN << Digits[n + 1] >>
  ELSE << Digits[(n \div 10) + 1], Digits[(n % 10) + 1] >>

IsDigit(c) == \E i \in 1..10 : Digits[i] = c

DigitValue(c) == (CHOOSE i \in 1..10 : Digits[i] = c) - 1

NaN == -1

\* parseInt: the value of the longest prefix of decimal digits, NaN if none
RECURSIVE ParseDigits(_, _)
ParseDigits(str, acc) ==
  IF str # << >> /\ IsDigit(Head(str))
  THEN ParseDigits(Tail(str), acc * 10 + DigitValue(Head(str)))
  ELSE acc

parseInt(str) ==
  IF str # << >> /\ IsDigit(Head(str)) THEN ParseDigits(str, 0) ELSE NaN

\* request_id values an AI event may carry; << >> stands for an absent one
RequestIdTags == { << >>, <<"0">>, <<"1">> }

\* the same, and a tag that is no identifier's decimal form
LooseTags == RequestIdTags \cup { <<"0","x">> }

\* text-delta payloads that tell the order of two deltas
OrderedDeltas == { <<"a">>, <<"b">> }

(***************************************************************************)
(* State of the end-call bridge (src/unnamed/part_001, first script).      *)
(* Module-level variables of the script are single variables here; the     *)
(* variables of the /media-stream handler's closure are functions of the   *)
(* session (one session per accepted telephony connection).                *)
(***************************************************************************)
VARIABLES
  live,                   \* the sessions whose connection handler has run
  tState,                 \* connection.socket.readyState, per session
  aiState,                \* openAiWs.readyState, per session
  streamSid,
  callSid,
  dynamicPrompt,
  initTimer,              \* setTimeout(initializeSession, 100): none/armed/done
  lookups,                \* initializeSession calls suspended in lookupPrompt
  localStartTime,         \* << >> while unset, else <<Date.now()>>
  lastDrift,              \* << >> while null, else <<drift>>
  lastAssistantItem,
  silentRequests,         \* Map: request id -> accumulated response
  requestCounter,
  userTranscription,
  assistantTranscription,
  callDurationTimer,      \* handle of the timer armed last; 0: unset
  durTimers,              \* timers pending in the event loop: records [id, s]
  timerSeq,               \* handles given out so far
  endCalls,               \* endCall invocations, in call order
  aiAudio,                \* input_audio_buffer.append messages sent, per session
  aiCtl,                  \* every other message sent on the AI leg, per session
  aiLate,                 \* types of messages handed to a closing/closed AI leg
  tOut,                   \* frames sent on the telephony leg, per session
  tLate,                  \* events handed to a closing/closed telephony leg
  mediaIn,                \* history: payloads of 'media' events met with an open AI leg
  deltaIn,                \* history: non-empty audio deltas met with an open telephony leg
  quota,                  \* events of each kind the environment may still deliver
  resolverFailed,         \* history: a prompt lookup of the session failed
  openAiWsIsOpen,         \* summary-request bridge only, per session
  sessionInitialized,     \* summary-request bridge only, per session
  assistantSaidGoodbye,   \* summary-request bridge only, per session
  summarySent,            \* summary-request bridge only, module level
  audioDeltaTimeout,      \* summary-request bridge only: handle of the 1 s timer, 0 while null
  silentResolved,         \* values the Silent Request promises resolved with
  silentLog,              \* history: Silent Requests made, tagged text events met
  exited,                 \* an exception nobody caught has ended the process
  promptKeys,             \* Redis-backed script: numbers whose prompt key is set
  handlerAt,              \* Redis-backed script: position of the connection handler
  toNumber                \* Redis-backed script: the `to` query parameter

vars ==
  << live, tState, aiState, streamSid, callSid, dynamicPrompt, initTimer, lookups,
     localStartTime, lastDrift, lastAssistantItem, silentRequests, requestCounter,
     userTranscription, assistantTranscription, callDurationTimer, durTimers,
     timerSeq, endCalls, aiAudio, aiCtl, aiLate, tOut, tLate, mediaIn, deltaIn,
     quota, resolverFailed, openAiWsIsOpen, sessionInitialized, assistantSaidGoodbye,
     summarySent, audioDeltaTimeout, silentResolved, silentLog, exited, promptKeys,
     handlerAt, toNumber >>

\* The current state as one record, so that a handler reads as the sequence of
\* its statements: each helper below maps a state record to the next one.
St ==
  [ live |-> live, tState |-> tState, aiState |-> aiState, streamSid |-> streamSid,
    callSid |-> callSid, dynamicPrompt |-> dynamicPrompt, initTimer |-> initTimer,
    lookups |-> lookups, localStartTime |-> localStartTime, lastDrift |-> lastDrift,
    lastAssistantItem |-> lastAssistantItem, silentRequests |-> silentRequests,
    requestCounter |-> requestCounter, userTranscription |-> userTranscription,
    assistantTranscription |-> assistantTranscription,
    callDurationTimer |-> callDurationTimer, durTimers |-> durTimers,
    timerSeq |-> timerSeq, endCalls |-> endCalls, aiAudio |-> aiAudio,
    aiCtl |-> aiCtl, aiLate |-> aiLate, tOut |-> tOut, tLate |-> tLate,
    mediaIn |-> mediaIn, deltaIn |-> deltaIn, quota |-> quota,
    resolverFailed |-> resolverFailed, openAiWsIsOpen |-> openAiWsIsOpen,
    sessionInitialized |-> sessionInitialized,
    assistantSaidGoodbye |-> assistantSaidGoodbye, summarySent |-> summarySent,
    audioDeltaTimeout |-> audioDeltaTimeout, silentResolved |-> silentResolved,
    silentLog |-> silentLog, exited |-> exited, promptKeys |-> promptKeys,
    handlerAt |-> handlerAt, toNumber |-> toNumber ]

Commit(n) ==
  /\ live' = n.live
  /\ tState' = n.tState
  /\ aiState' = n.aiState
  /\ streamSid' = n.streamSid
  /\ callSid' = n.callSid
  /\ dynamicPrompt' = n.dynamicPrompt
  /\ initTimer' = n.initTimer
  /\ lookups' = n.lookups
  /\ localStartTime' = n.localStartTime
  /\ lastDrift' = n.lastDrift
  /\ lastAssistantItem' = n.lastAssistantItem
  /\ silentRequests' = n.silentRequests
  /\ requestCounter' = n.requestCounter
  /\ userTranscription' = n.userTranscription
  /\ assistantTranscription' = n.assistantTranscription
  /\ callDurationTimer' = n.callDurationTimer
  /\ durTimers' = n.durTimers
  /\ timerSeq' = n.timerSeq
  /\ endCalls' = n.endCalls
  /\ aiAudio' = n.aiAudio
  /\ aiCtl' = n.aiCtl
  /\ aiLate' = n.aiLate
  /\ tOut' = n.tOut
  /\ tLate' = n.tLate
  /\ mediaIn' = n.mediaIn
  /\ deltaIn' = n.deltaIn
  /\ quota' = n.quota
  /\ resolverFailed' = n.resolverFailed
  /\ openAiWsIsOpen' = n.openAiWsIsOpen
  /\ sessionInitialized' = n.sessionInitialized
  /\ assistantSaidGoodbye' = n.assistantSaidGoodbye
  /\ summarySent' = n.summarySent
  /\ audioDeltaTimeout' = n.audioDeltaTimeout
  /\ silentResolved' = n.silentResolved
  /\ silentLog' = n.silentLog
  /\ exited' = n.exited
  /\ promptKeys' = n.promptKeys
  /\ handlerAt' = n.handlerAt
  /\ toNumber' = n.toNumber

\* State after the module has loaded and the /media-stream handler has run for
\* the sessions of `accepted`: new WebSocket(...) is CONNECTING.
InitFor(accepted, budgets) ==
  /\ live = accepted
  /\ tState = [s \in Sessions |-> IF s \in accepted THEN "OPEN" ELSE "CLOSED"]
  /\ aiState = [s \in Sessions |-> IF s \in accepted THEN "CONNECTING" ELSE "CLOSED"]
  /\ streamSid = [s \in Sessions |-> Null]
  /\ callSid = [s \in Sessions |-> Null]
  /\ dynamicPrompt = [s \in Sessions |-> Null]
  /\ initTimer = [s \in Sessions |-> "none"]
  /\ lookups = [s \in Sessions |-> 0]
  /\ localStartTime = << >>
  /\ lastDrift = << >>
  /\ lastAssistantItem = Null
  /\ silentRequests = [i \in {} |-> << >>]
  /\ requestCounter = 0
  /\ userTranscription = << >>
  /\ assistantTranscription = << >>
  /\ callDurationTimer = 0
  /\ durTimers = {}
  /\ timerSeq = 0
  /\ endCalls = << >>
  /\ aiAudio = [s \in Sessions |-> << >>]
  /\ aiCtl = [s \in Sessions |-> << >>]
  /\ aiLate = [s \in Sessions |-> {}]
  /\ tOut = [s \in Sessions |-> << >>]
  /\ tLate = [s \in Sessions |-> {}]
  /\ mediaIn = [s \in Sessions |-> << >>]
  /\ deltaIn = [s \in Sessions |-> << >>]
  /\ quota \in budgets
  /\ resolverFailed = [s \in Sessions |-> FALSE]
  /\ openAiWsIsOpen = [s \in Sessions |-> FALSE]
  /\ sessionInitialized = [s \in Sessions |-> FALSE]
  /\ assistantSaidGoodbye = [s \in Sessions |-> FALSE]
  /\ summarySent = FALSE
  /\ audioDeltaTimeout = [s \in Sessions |-> 0]
  /\ silentResolved = << >>
  /\ silentLog = << >>
  /\ exited = FALSE
  /\ promptKeys = {}
  /\ handlerAt = [s \in Sessions |-> IF s \in accepted THEN "run" ELSE "none"]
  /\ toNumber = [s \in Sessions |-> Null]

\* What the environment delivers in one behaviour is one of four traffic
\* profiles; TLC explores every interleaving of each.
EventKinds ==
  { "media", "delta", "start", "speech", "response.done", "user", "assistant",
    "text.delta", "text.done", "silent", "close", "control",
    "error" }

NoTraffic == [k \in EventKinds |-> 0]

\* audio in both directions
RelayTraffic ==
  [NoTraffic EXCEPT !["start"] = MaxStart, !["media"] = MaxMedia, !["delta"] = MaxDelta]

\* the caller interrupts the assistant
BargeInTraffic ==
  [NoTraffic EXCEPT !["start"] = MaxStart, !["response.done"] = MaxResponseDone,
                    !["speech"] = MaxSpeech]

\* set-up, duration limit and a farewell of the assistant
SetUpTraffic ==
  [NoTraffic EXCEPT !["start"] = MaxStart, !["assistant"] = MaxTranscripts,
                    !["text.done"] = MaxTextDone]

\* farewells of both parties and the text responses of the finalisation
EndOfCallTraffic ==
  [NoTraffic EXCEPT !["user"] = MaxTranscripts, !["assistant"] = MaxTranscripts,
                    !["text.delta"] = MaxTextDelta, !["text.done"] = MaxTextDone]

Traffic == { RelayTraffic, BargeInTraffic, SetUpTraffic, EndOfCallTraffic }

Init == InitFor({1}, Traffic)

(***************************************************************************)
(* Sending.  ws send(): throws while CONNECTING (the callers below test    *)
(* for it), delivers while OPEN, drops once CLOSING or CLOSED.             *)
(***************************************************************************)
SendAi(st, s, m) ==
  IF st.aiState[s] = "OPEN"
  THEN [st EXCEPT !.aiCtl[s] = Append(@, m)]
  ELSE [st EXCEPT !.aiLate[s] = @ \cup {m.type}]

SendTelephony(st, s, m) ==
  IF st.tState[s] = "OPEN"
  THEN [st EXCEPT !.tOut[s] = Append(@, m)]
  ELSE [st EXCEPT !.tLate[s] = @ \cup {m.event}]

(***************************************************************************)
(* Session initialisation.                                                 *)
(***************************************************************************)
SessionUpdate(instructions) ==
  [ type |-> "session.update", instructions |-> instructions,
    modalities |-> <<"text", "audio">> ]

InitialConversationItem ==
  [ type |-> "conversation.item.create", text |-> [kind |-> "greeting", body |-> << >>] ]

ResponseCreate == [ type |-> "response.create", modalities |-> << >>, request_id |-> << >> ]

sendInitialConversationItem(st, s) ==
  SendAi(SendAi(st, s, InitialConversationItem), s, ResponseCreate)

\* initializeSession from `const sessionUpdate` on.  The first send throws while
\* the AI socket is CONNECTING; the caller's try/catch (or the timer) swallows it.
ConfigureSession(st, s) ==
  IF st.aiState[s] = "CONNECTING"
  THEN st
  ELSE LET instructions ==
             IF st.dynamicPrompt[s] # Null THEN st.dynamicPrompt[s] ELSE SYSTEM_MESSAGE
       IN  sendInitialConversationItem(SendAi(st, s, SessionUpdate(instructions)), s)

\* initializeSession up to its first suspension: with a callSid it suspends in
\* lookupPrompt, without one it runs to its end in the caller's step.
initializeSession(st, s) ==
  IF st.callSid[s] # Null
  THEN [st EXCEPT !.lookups[s] = @ + 1]
  ELSE ConfigureSession(st, s)

\* lookupPrompt: the prompt found, or SYSTEM_MESSAGE when a query fails
lookupPrompt(found) == IF found THEN PromptText ELSE SYSTEM_MESSAGE

\* lookupPrompt returns to a suspended initializeSession
LookupReturns(s, found) ==
  /\ ~exited
  /\ s \in live
  /\ lookups[s] > 0
  /\ Commit(ConfigureSession(
       [St EXCEPT !.lookups[s] = @ - 1,
                  !.dynamicPrompt[s] = lookupPrompt(found),
                  !.resolverFailed[s] = @ \/ ~found], s))

\* openAiWs.on("open")
AiOpen(s, now) ==
  /\ s \in live
  /\ aiState[s] = "CONNECTING"
  /\ Commit([St EXCEPT !.aiState[s] = "OPEN",
                       !.localStartTime = <<now>>,
                       !.initTimer[s] = "armed"])

\* the 100 ms timer armed by 'open' runs initializeSession
InitTimerFires(s) ==
  /\ ~exited
  /\ s \in live
  /\ initTimer[s] = "armed"
  /\ Commit(initializeSession([St EXCEPT !.initTimer[s] = "done"], s))

(***************************************************************************)
(* Finalisation: endCall, the final message exchange, Silent Requests.     *)
(* An endCall invocation is a record of `endCalls`:                        *)
(*   pc            "final": suspended in sendFinalMessageAndWaitForResponse*)
(*                 "done": its finally block has run                       *)
(*   finalResponse text gathered by its message listener                   *)
(*   trigger, finalOk   history: who called, and whether the final message *)
(*                 exchange resolved                                       *)
(***************************************************************************)
NewLine == "\n"

FinalSummaryLabel ==
  <<NewLine,"F","i","n","a","l"," ","S","u","m","m","a","r","y",":"," ">>

FinalMessage ==
  [ type |-> "conversation.item.create", text |-> [kind |-> "final", body |-> << >>] ]

SilentConversationItem(kind, transcription) ==
  [ type |-> "conversation.item.create", text |-> [kind |-> kind, body |-> transcription] ]

\* a response.create that leaves the modalities to the session's (text, audio)
UntaggedResponseCreate(tag) ==
  [ type |-> "response.create", modalities |-> << >>, request_id |-> << >> ]

TextResponseCreate(tag) ==
  [ type |-> "response.create", modalities |-> <<"text">>, request_id |-> tag ]

ClearDurationTimer(st) ==
  [st EXCEPT !.durTimers = {t \in @ : t.id # st.callDurationTimer}]

\* endCall's finally block
CloseBothLegs(st, s) ==
  [st EXCEPT !.tState[s] = IF @ = "OPEN" THEN "CLOSING" ELSE @,
             !.aiState[s] = IF @ = "OPEN" THEN "CLOSING" ELSE @]

NewEndCall(s, pc, trigger) ==
  [ s |-> s, pc |-> pc, finalResponse |-> << >>, trigger |-> trigger, finalOk |-> FALSE ]

\* sendFinalMessageAndWaitForResponse up to its suspension: two sends, the
\* listener, the 30 s timer.  While the AI socket is CONNECTING the first send
\* throws inside the promise executor: the promise is rejected and endCall goes
\* through catch to finally.
sendFinalMessageAndWaitForResponse(st, s, trigger) ==
  IF st.aiState[s] = "CONNECTING"
  THEN CloseBothLegs([st EXCEPT !.endCalls = Append(@, NewEndCall(s, "done", trigger))], s)
  ELSE [SendAi(SendAi(st, s, FinalMessage), s, TextResponseCreate(<< >>))
          EXCEPT !.endCalls = Append(@, NewEndCall(s, "final", trigger))]

endCall(st, s, trigger) ==
  LET st1 == IF st.callDurationTimer # 0
             THEN [ClearDurationTimer(st) EXCEPT !.callDurationTimer = 0]
             ELSE st
  IN  sendFinalMessageAndWaitForResponse(st1, s, trigger)

\* a makeSilentRequest that reads requestCounter and leaves it as it is
makeSilentRequestSameId(st, s, kind, transcription) ==
  LET requestId == st.requestCounter
      st1 == [st EXCEPT !.silentRequests =
                           [i \in (DOMAIN st.silentRequests) \cup {requestId} |->
                              IF i = requestId THEN << >> ELSE st.silentRequests[i]]]
  IN  SendAi(SendAi(st1, s, SilentConversationItem(kind, transcription)), s,
             TextResponseCreate(toString(requestId)))

\* makeSilentRequest is a function of the connection handler's closure; no
\* statement of the script calls it from there.
makeSilentRequest(st, s, kind, transcription) ==
  LET requestId == st.requestCounter
      st1 == [st EXCEPT !.requestCounter = requestId + 1,
                        !.silentRequests =
                           [i \in (DOMAIN st.silentRequests) \cup {requestId} |->
                              IF i = requestId THEN << >> ELSE st.silentRequests[i]]]
  IN  SendAi(SendAi(st1, s, SilentConversationItem(kind, transcription)), s,
             TextResponseCreate(toString(requestId)))

\* processEndOfCall is a function of the module; its first statement refers to
\* makeSilentRequest, which is not in its scope: the reference throws a
\* ReferenceError, the function's own catch logs it, and the function returns
\* with nothing sent.
processEndOfCall(st, s, transcription) == st

\* endCall after its final message exchange resolved: the transcript gets the
\* final summary, processEndOfCall runs, and the finally block closes the legs.
AfterFinalResponse(st, k) ==
  LET e == st.endCalls[k]
      st1 == [st EXCEPT !.assistantTranscription =
                           @ \o FinalSummaryLabel \o e.finalResponse \o <<NewLine>>]
      transcription ==
        st1.userTranscription \o <<NewLine>> \o st1.assistantTranscription
      st2 == processEndOfCall(st1, e.s, transcription)
  IN  CloseBothLegs(
        [st2 EXCEPT !.endCalls[k] = [e EXCEPT !.pc = "done", !.finalOk = TRUE]], e.s)

\* the endCall invocations whose final-message listener is on session s's AI socket
FinalListeners(st, s) ==
  SelectSeq([k \in 1..Len(st.endCalls) |-> k],
            LAMBDA k : st.endCalls[k].pc = "final" /\ st.endCalls[k].s = s)

RECURSIVE ResolveFinals(_, _)
ResolveFinals(st, ks) ==
  IF ks = << >> THEN st
  ELSE ResolveFinals(AfterFinalResponse(st, Head(ks)), Tail(ks))

\* the 30 s timer of endCall invocation k fires while the exchange is still
\* suspended: reject, catch, finally.  (The timer is never cleared; firing
\* after the exchange resolved rejects a settled promise and changes nothing.)
OnFinalTimeout(st, k) ==
  CloseBothLegs([st EXCEPT !.endCalls[k].pc = "done"], st.endCalls[k].s)

FinalTimeoutFires(k) ==
  /\ ~exited
  /\ k \in 1..Len(endCalls)
  /\ endCalls[k].pc = "final"
  /\ Commit(OnFinalTimeout(St, k))

(***************************************************************************)
(* openAiWs.on("message"): one action per event type.  Every listener of   *)
(* the socket sees the event: the main listener first, then the final-     *)
(* message listeners of the endCall invocations still waiting; the         *)
(* continuations they resolve run next, the Silent Request's first.        *)
(***************************************************************************)
AiReceives(s, kind) ==
  /\ s \in live
  /\ aiState[s] \in {"OPEN", "CLOSING"}
  /\ quota[kind] > 0

Counted(st, kind) == [st EXCEPT !.quota[kind] = @ - 1]

MayEndCall == Len(endCalls) < MaxEndCalls

\* conversation.item.input_audio_transcription.completed
UserTranscript(s, transcript) ==
  /\ AiReceives(s, "user")
  /\ checkForGoodbye(transcript) => MayEndCall
  /\ LET st1 == [Counted(St, "user") EXCEPT !.userTranscription = @ \o transcript]
     IN  Commit(IF checkForGoodbye(transcript) THEN endCall(st1, s, "user") ELSE st1)

\* response.audio_transcript.done
AssistantTranscriptDone(s, transcript) ==
  /\ AiReceives(s, "assistant")
  /\ checkForGoodbye(transcript) => MayEndCall
  /\ LET st1 == [Counted(St, "assistant") EXCEPT
                   !.assistantTranscription = @ \o transcript \o <<NewLine>>]
     IN  Commit(IF checkForGoodbye(transcript) THEN endCall(st1, s, "assistant") ELSE st1)

\* a text-delta handler that credits every pending Silent Request
OnTextDeltaAnyRequest(st, s, tag, delta) ==
  [st EXCEPT !.silentRequests = [i \in DOMAIN @ |-> @[i] \o delta]]

\* response.text.delta
OnTextDelta(st, s, tag, delta) ==
  LET requestId == parseInt(tag)
      st1 == IF tag # << >> /\ requestId \in DOMAIN st.silentRequests
             THEN [st EXCEPT !.silentRequests[requestId] = @ \o delta]
             ELSE st
  IN  [st1 EXCEPT !.endCalls =
         [k \in 1..Len(st1.endCalls) |->
            IF st1.endCalls[k].pc = "final" /\ st1.endCalls[k].s = s
            THEN [st1.endCalls[k] EXCEPT !.finalResponse = @ \o delta]
            ELSE st1.endCalls[k]]]

TextDelta(s, tag, delta) ==
  /\ AiReceives(s, "text.delta")
  /\ Commit(OnTextDelta(Counted(St, "text.delta"), s, tag, delta))

\* request.resolve(request.response)
ResolveSilent(st, requestId) ==
  [st EXCEPT !.silentResolved =
     Append(@, [id |-> requestId, text |-> st.silentRequests[requestId]])]

\* a text-done handler that resolves the request and keeps it in the Map
OnTextDoneKeepsRequest(st, s, tag) ==
  LET requestId == parseInt(tag)
  IN  IF tag # << >> /\ requestId \in DOMAIN st.silentRequests
      THEN ResolveSilent(st, requestId)
      ELSE st

\* response.text.done: the main listener settles the Silent Request named by
\* request_id, then the final-message listeners resolve their endCall
OnTextDone(st, s, tag) ==
  LET requestId == parseInt(tag)
      st1 == IF tag # << >> /\ requestId \in DOMAIN st.silentRequests
             THEN [ResolveSilent(st, requestId) EXCEPT !.silentRequests =
                     [i \in (DOMAIN st.silentRequests) \ {requestId} |-> st.silentRequests[i]]]
             ELSE st
  IN  ResolveFinals(st1, FinalListeners(st, s))

TextDone(s, tag) ==
  /\ AiReceives(s, "text.done")
  /\ Commit(OnTextDone(Counted(St, "text.done"), s, tag))

\* response.audio.delta
AudioDeltaFrame(st, s, delta) ==
  [ event |-> "media", streamSid |-> st.streamSid[s], payload |-> ReencodeBase64(delta) ]

OnAudioDeltaUnwrapped(st, s, delta) ==
  IF delta # << >>
  THEN SendTelephony(st, s, [AudioDeltaFrame(st, s, delta) EXCEPT !.payload = delta])
  ELSE st

\* an audio-delta handler that waits for a pending prompt lookup
OnAudioDeltaAfterLookup(st, s, delta) ==
  IF delta # << >> /\ st.lookups[s] = 0
  THEN SendTelephony(st, s, AudioDeltaFrame(st, s, delta))
  ELSE st

OnAudioDelta(st, s, delta) ==
  IF delta # << >>
  THEN SendTelephony(st, s, AudioDeltaFrame(st, s, delta))
  ELSE st

\* the environment's side of the event: a non-empty delta counts against the
\* traffic, and is recorded when it meets an open telephony leg
DeltaArrives(st, s, delta) ==
  IF delta = << >> THEN st
  ELSE [Counted(st, "delta") EXCEPT
          !.deltaIn[s] = IF st.tState[s] = "OPEN" THEN Append(@, delta) ELSE @]

AudioDelta(s, delta) ==
  /\ AiReceives(s, "delta")
  /\ Commit(OnAudioDelta(DeltaArrives(St, s, delta), s, delta))

\* input_audio_buffer.speech_started
TruncateEvent(item, ms) ==
  [ type |-> "conversation.item.truncate", item_id |-> item, content_index |-> 0,
    audio_end_ms |-> ms ]

ClearEvent(sid) == [ event |-> "clear", streamSid |-> sid ]

handleSpeechStartedDriftAdjusted(st, s, ms, localTime) ==
  LET drift == localTime - st.localStartTime[1] - ms
      st1 == IF st.lastDrift = << >> \/ <<drift>> # st.lastDrift
             THEN [st EXCEPT !.lastDrift = <<drift>>]
             ELSE st
      st2 == IF st1.streamSid[s] # Null
             THEN SendTelephony(st1, s, ClearEvent(st1.streamSid[s]))
             ELSE st1
  IN  IF st2.lastAssistantItem # Null
      THEN [SendAi(st2, s, TruncateEvent(st2.lastAssistantItem, ms + drift))
              EXCEPT !.lastAssistantItem = Null]
      ELSE st2

handleSpeechStartedKeepsItem(st, s, ms, localTime) ==
  LET st1 == IF st.streamSid[s] # Null
             THEN SendTelephony(st, s, ClearEvent(st.streamSid[s]))
             ELSE st
  IN  IF st1.lastAssistantItem # Null
      THEN SendAi(st1, s, TruncateEvent(st1.lastAssistantItem, ms))
      ELSE st1

handleSpeechStartedEvent(st, s, ms, localTime) ==
  LET drift == localTime - st.localStartTime[1] - ms
      st1 == IF st.lastDrift = << >> \/ <<drift>> # st.lastDrift
             THEN [st EXCEPT !.lastDrift = <<drift>>]
             ELSE st
      st2 == IF st1.streamSid[s] # Null
             THEN SendTelephony(st1, s, ClearEvent(st1.streamSid[s]))
             ELSE st1
  IN  IF st2.lastAssistantItem # Null
      THEN [SendAi(st2, s, TruncateEvent(st2.lastAssistantItem, ms))
              EXCEPT !.lastAssistantItem = Null]
      ELSE st2

SpeechStarted(s, ms, localTime) ==
  /\ AiReceives(s, "speech")
  /\ Commit(handleSpeechStartedEvent(Counted(St, "speech"), s, ms, localTime))

\* response.done.  `item` is the first assistant item of response.output:
\* [id, text], text being content[0].text (Undefined for audio content, on
\* which checkForGoodbye throws and the listener's catch ends the handling).
handleResponseDoneEvent(st, s, item) ==
  LET st1 == [st EXCEPT !.lastAssistantItem = item.id]
  IN  IF item.text # Undefined /\ checkForGoodbye(item.text)
      THEN endCall(st1, s, "response.done")
      ELSE st1

ResponseDone(s, item) ==
  /\ AiReceives(s, "response.done")
  /\ (item.text # Undefined /\ checkForGoodbye(item.text)) => MayEndCall
  /\ Commit(handleResponseDoneEvent(Counted(St, "response.done"), s, item))

\* response.done without an assistant item, session.updated, error, and any
\* other event: logged only
OtherAiEvent(s) ==
  /\ s \in live
  /\ aiState[s] \in {"OPEN", "CLOSING"}
  /\ Commit(St)

\* an exception that no try/catch encloses leaves the listener: the process
\* ends, and with it every socket, every timer and every pending lookup of
\* every session
ProcessExits(st) ==
  [st EXCEPT !.exited = TRUE,
             !.tState = [o \in Sessions |-> "CLOSED"],
             !.aiState = [o \in Sessions |-> "CLOSED"]]

\* a message that JSON.parse rejects arrives on the AI leg.  The main listener
\* catches the SyntaxError and logs it; the message listener of an endCall
\* waiting for its final response parses outside any try/catch.
OnMalformedAiMessage(st, s) ==
  IF FinalListeners(st, s) = << >> THEN st ELSE ProcessExits(st)

MalformedAiMessage(s) ==
  /\ s \in live
  /\ aiState[s] \in {"OPEN", "CLOSING"}
  /\ Commit(OnMalformedAiMessage(St, s))

\* the AI socket closes (its 'close' event has no listener), also when the
\* connection could not be established
AiClosed(s) ==
  /\ s \in live
  /\ aiState[s] # "CLOSED"
  /\ Commit([St EXCEPT !.aiState[s] = "CLOSED"])

(***************************************************************************)
(* connection.socket.on("message") and on("close")                         *)
(***************************************************************************)
TelephonyReceives(s) ==
  /\ s \in live
  /\ tState[s] \in {"OPEN", "CLOSING"}

AudioAppend(payload) == [ type |-> "input_audio_buffer.append", audio |-> payload ]

\* case "media"
OnMediaTwice(st, s, payload) ==
  IF st.aiState[s] = "OPEN"
  THEN [st EXCEPT !.aiAudio[s] = @ \o <<AudioAppend(payload), AudioAppend(payload)>>]
  ELSE st

\* a 'media' handler that hands the frame to the AI socket whatever its state,
\* for the socket to send once it can
OnMediaBuffered(st, s, payload) ==
  [st EXCEPT !.aiAudio[s] = Append(@, AudioAppend(payload))]

OnMedia(st, s, payload) ==
  IF st.aiState[s] = "OPEN"
  THEN [st EXCEPT !.aiAudio[s] = Append(@, AudioAppend(payload))]
  ELSE st

\* the environment's side of the event: every frame counts against the
\* traffic, and a frame that meets an open AI leg is recorded
MediaArrives(st, s, payload) ==
  IF st.aiState[s] = "OPEN"
  THEN [Counted(st, "media") EXCEPT !.mediaIn[s] = Append(@, payload)]
  ELSE Counted(st, "media")

Media(s, payload) ==
  /\ TelephonyReceives(s)
  /\ quota["media"] > 0
  /\ Commit(OnMedia(MediaArrives(St, s, payload), s, payload))

\* case "start": the identifiers, the duration-limit timer, initializeSession
OnStart(st, s, sid, cid) ==
  LET handle == st.timerSeq + 1
  IN  initializeSession(
        [st EXCEPT !.streamSid[s] = sid,
                   !.callSid[s] = cid,
                   !.timerSeq = handle,
                   !.callDurationTimer = handle,
                   !.durTimers = @ \cup {[id |-> handle, s |-> s]}], s)

Start(s, sid, cid) ==
  /\ TelephonyReceives(s)
  /\ quota["start"] > 0
  /\ Commit(OnStart(Counted(St, "start"), s, sid, cid))

\* default case: logged only
OtherTelephonyEvent(s) ==
  /\ TelephonyReceives(s)
  /\ Commit(St)

\* the duration-limit timer's callback
DurationTimerLogsOnly(s, handle) ==
  /\ [id |-> handle, s |-> s] \in durTimers
  /\ MayEndCall
  /\ Commit([St EXCEPT !.durTimers = @ \ {[id |-> handle, s |-> s]}])

DurationTimerFires(s, handle) ==
  /\ ~exited
  /\ [id |-> handle, s |-> s] \in durTimers
  /\ MayEndCall
  /\ Commit(endCall([St EXCEPT !.durTimers = @ \ {[id |-> handle, s |-> s]}], s, "timer"))

\* a message that JSON.parse rejects arrives on the telephony leg: the
\* listener's try/catch logs it
MalformedTelephonyMessage(s) ==
  /\ TelephonyReceives(s)
  /\ Commit(St)

\* connection.socket.on("close"): the caller hung up, or a close() completed
OnTelephonyClose(st, s) ==
  LET st1 == IF st.callDurationTimer # 0 THEN ClearDurationTimer(st) ELSE st
  IN  [st1 EXCEPT !.tState[s] = "CLOSED",
                  !.aiState[s] = IF @ = "OPEN" THEN "CLOSING" ELSE @]

TelephonyClosed(s) ==
  /\ TelephonyReceives(s)
  /\ Commit(OnTelephonyClose(St, s))

Next ==
  \E s \in Sessions :
    \/ \E now \in ClockValues : AiOpen(s, now)
    \/ InitTimerFires(s)
    \/ \E found \in BOOLEAN : LookupReturns(s, found)
    \/ \E t \in Texts : UserTranscript(s, t)
    \/ \E t \in Texts : AssistantTranscriptDone(s, t)
    \/ \E tag \in RequestIdTags, d \in TextDeltas : TextDelta(s, tag, d)
    \/ \E tag \in RequestIdTags : TextDone(s, tag)
    \/ \E d \in DeltaPayloads : AudioDelta(s, d)
    \/ \E ms \in OffsetsMs, now \in ClockValues : SpeechStarted(s, ms, now)
    \/ \E id \in ItemIds, t \in Texts \cup {Undefined} :
         ResponseDone(s, [id |-> id, text |-> t])
    \/ OtherAiEvent(s)
    \/ MalformedAiMessage(s)
    \/ AiClosed(s)
    \/ \E p \in MediaPayloads : Media(s, p)
    \/ \E sid \in StreamSids, cid \in CallSids : Start(s, sid, cid)
    \/ OtherTelephonyEvent(s)
    \/ MalformedTelephonyMessage(s)
    \/ \E h \in 1..timerSeq : DurationTimerFires(s, h)
    \/ TelephonyClosed(s)
    \/ \E k \in 1..Len(endCalls) : endCalls[k].s = s /\ FinalTimeoutFires(k)

Spec == Init /\ [][Next]_vars

\* What the runtime guarantees while the process lives: an armed timer fires (the 100 ms start-up
\* timer, the 30 s timer of the final message exchange), a connection attempt
\* ends in 'open' or in 'close', and a socket that is CLOSING gets CLOSED (the
\* close handshake has its own timer).
ConnectionAttemptEnds(s) ==
  aiState[s] = "CONNECTING" /\ ((\E now \in ClockValues : AiOpen(s, now)) \/ AiClosed(s))

AiCloseCompletes(s) == aiState[s] = "CLOSING" /\ AiClosed(s)

TelephonyCloseCompletes(s) == tState[s] = "CLOSING" /\ TelephonyClosed(s)

Fairness ==
  /\ \A s \in Sessions :
       /\ WF_vars(InitTimerFires(s))
       /\ WF_vars(ConnectionAttemptEnds(s))
       /\ WF_vars(AiCloseCompletes(s))
       /\ WF_vars(TelephonyCloseCompletes(s))
  /\ \A k \in 1..MaxEndCalls : WF_vars(FinalTimeoutFires(k))

FairSpec == Spec /\ Fairness

(***************************************************************************)
(* The summary-request bridge (src/index.js, second script).  It shares    *)
(* the relay and barge-in code with the end-call bridge; its session       *)
(* set-up is guarded, and its finalisation is a summary request followed   *)
(* by a close of the telephony leg after 1 s without audio.                *)
(***************************************************************************)
BTraffic ==
  [NoTraffic EXCEPT !["start"] = MaxStart, !["assistant"] = MaxTranscripts,
                    !["user"] = MaxTranscripts, !["delta"] = MaxDelta,
                    !["response.done"] = MaxResponseDone, !["media"] = 1]

BInit == InitFor({1}, {BTraffic})

\* lookupPrompt: the prompt found, or null when a query fails
BlookupPrompt(found) == IF found THEN PromptText ELSE Null

\* initializeSession up to its suspension in lookupPrompt
BinitializeSession(st, s) ==
  IF st.sessionInitialized[s] THEN st
  ELSE IF st.callSid[s] = Null \/ ~st.openAiWsIsOpen[s] THEN st
  ELSE [st EXCEPT !.sessionInitialized[s] = TRUE, !.lookups[s] = @ + 1]

\* lookupPrompt returns: session.update, then the 100 ms wait
BLookupReturns(s, found) ==
  /\ s \in live
  /\ lookups[s] > 0
  /\ LET st1 == [St EXCEPT !.lookups[s] = @ - 1,
                           !.dynamicPrompt[s] = BlookupPrompt(found),
                           !.resolverFailed[s] = @ \/ ~found,
                           !.initTimer[s] = "armed"]
         instructions ==
           IF st1.dynamicPrompt[s] # Null THEN st1.dynamicPrompt[s] ELSE SYSTEM_MESSAGE
     IN  Commit(SendAi(st1, s, SessionUpdate(instructions)))

\* the 100 ms wait of initializeSession is over
BInitDelayElapses(s) ==
  /\ s \in live
  /\ initTimer[s] = "armed"
  /\ Commit(sendInitialConversationItem([St EXCEPT !.initTimer[s] = "done"], s))

\* openAiWs.on("open")
BAiOpen(s, now) ==
  /\ s \in live
  /\ aiState[s] = "CONNECTING"
  /\ Commit(BinitializeSession(
       [St EXCEPT !.aiState[s] = "OPEN", !.openAiWsIsOpen[s] = TRUE,
                  !.localStartTime = <<now>>], s))

\* case "start"
BStart(s, sid, cid) ==
  /\ TelephonyReceives(s)
  /\ quota["start"] > 0
  /\ Commit(BinitializeSession(
       [Counted(St, "start") EXCEPT !.streamSid[s] = sid, !.callSid[s] = cid], s))

SummaryRequest ==
  [ type |-> "conversation.item.create", text |-> [kind |-> "summaryRequest", body |-> << >>] ]

\* sendSummaryRequest is a function of the module; after setting summarySent
\* it refers to openAiWs, a constant of the connection handler: the reference
\* throws a ReferenceError, which the message listener's catch logs.  Nothing
\* is sent.
sendSummaryRequest(st, s) ==
  IF st.summarySent THEN st ELSE [st EXCEPT !.summarySent = TRUE]

\* conversation.item.input_audio_transcription.completed (the userSaidGoodbye
\* flag it sets is never read)
BUserTranscript(s, transcript) ==
  /\ AiReceives(s, "user")
  /\ Commit([Counted(St, "user") EXCEPT !.userTranscription = @ \o transcript])

\* response.audio_transcript.done
BAssistantTranscriptDone(s, transcript) ==
  /\ AiReceives(s, "assistant")
  /\ LET st1 == [Counted(St, "assistant") EXCEPT
                   !.assistantTranscription = @ \o transcript \o <<NewLine>>]
     IN  Commit(IF checkForGoodbye(transcript)
                THEN sendSummaryRequest([st1 EXCEPT !.assistantSaidGoodbye[s] = TRUE], s)
                ELSE st1)

\* response.audio.delta: the frame, then the inactivity timer is cleared and,
\* after a farewell of the assistant, armed anew
ArmAudioDeltaTimeout(st, s) ==
  IF st.assistantSaidGoodbye[s]
  THEN LET handle == st.timerSeq + 1
       IN  [st EXCEPT !.timerSeq = handle,
                      !.audioDeltaTimeout[s] = handle,
                      !.durTimers = @ \cup {[id |-> handle, s |-> s]}]
  ELSE st

BOnAudioDeltaKeepsTimer(st, s, delta) ==
  IF delta # << >>
  THEN ArmAudioDeltaTimeout(OnAudioDelta(st, s, delta), s)
  ELSE st

BOnAudioDelta(st, s, delta) ==
  IF delta # << >>
  THEN LET st1 == OnAudioDelta(st, s, delta)
           st2 == IF st1.audioDeltaTimeout[s] # 0
                  THEN [st1 EXCEPT !.durTimers = {t \in @ : t.id # st1.audioDeltaTimeout[s]}]
                  ELSE st1
       IN  ArmAudioDeltaTimeout(st2, s)
  ELSE st

BAudioDelta(s, delta) ==
  /\ AiReceives(s, "delta")
  /\ Commit(BOnAudioDelta(DeltaArrives(St, s, delta), s, delta))

\* the inactivity timer's callback
BAudioDeltaTimeoutFires(s) ==
  /\ s \in live
  /\ \E t \in durTimers :
        /\ t.s = s
        /\ Commit([St EXCEPT !.durTimers = @ \ {t},
                             !.tState[s] = IF @ = "OPEN" THEN "CLOSING" ELSE @])

\* response.done
BhandleResponseDoneEvent(st, s, item) ==
  LET st1 == [st EXCEPT !.lastAssistantItem = item.id]
  IN  IF st1.assistantSaidGoodbye[s] /\ ~st1.summarySent
      THEN sendSummaryRequest(st1, s)
      ELSE st1

BResponseDone(s, item) ==
  /\ AiReceives(s, "response.done")
  /\ Commit(BhandleResponseDoneEvent(Counted(St, "response.done"), s, item))

\* connection.socket.on("close")
BTelephonyClosed(s) ==
  /\ TelephonyReceives(s)
  /\ Commit([St EXCEPT !.tState[s] = "CLOSED",
                       !.aiState[s] = IF @ = "OPEN" THEN "CLOSING" ELSE @])

BNext ==
  \E s \in Sessions :
    \/ \E now \in ClockValues : BAiOpen(s, now)
    \/ \E found \in BOOLEAN : BLookupReturns(s, found)
    \/ BInitDelayElapses(s)
    \/ \E sid \in StreamSids, cid \in CallSids : BStart(s, sid, cid)
    \/ \E p \in MediaPayloads : Media(s, p)
    \/ \E t \in Texts : BUserTranscript(s, t)
    \/ \E t \in Texts : BAssistantTranscriptDone(s, t)
    \/ \E d \in DeltaPayloads : BAudioDelta(s, d)
    \/ BAudioDeltaTimeoutFires(s)
    \/ \E id \in ItemIds, t \in Texts \cup {Undefined} :
         BResponseDone(s, [id |-> id, text |-> t])
    \/ AiClosed(s)
    \/ BTelephonyClosed(s)

SpecB == BInit /\ [][BNext]_vars

\* timers of the summary-request bridge fire, and a closing socket gets closed
FairSpecB ==
  /\ SpecB
  /\ \A s \in Sessions :
       /\ WF_vars(BInitDelayElapses(s))
       /\ WF_vars(BAudioDeltaTimeoutFires(s))
       /\ WF_vars(aiState[s] = "CLOSING" /\ AiClosed(s))
       /\ WF_vars(tState[s] = "CLOSING" /\ BTelephonyClosed(s))

(***************************************************************************)
(* Silent Requests and two concurrent calls (end-call bridge).  The only   *)
(* calls of makeSilentRequest in the script are the two in                 *)
(* processEndOfCall, which is outside the function's scope and so never    *)
(* reaches it.  The specification below exercises the function and the     *)
(* text handlers that serve it as the connection handler's closure offers  *)
(* them: a call of makeSilentRequest(prompt) on a session whose AI socket  *)
(* has been opened, with the prompts processEndOfCall builds.  silentLog   *)
(* keeps what happened, for the properties only.                           *)
(***************************************************************************)
LogEntry(op, s, id, tag, delta) ==
  [ op |-> op, s |-> s, id |-> id, tag |-> tag, delta |-> delta ]

Logged(st, entry) == [st EXCEPT !.silentLog = Append(@, entry)]

\* the transcription processEndOfCall is called with
Transcription(st) == st.userTranscription \o <<NewLine>> \o st.assistantTranscription

\* processEndOfCall asks for the summary first and for the action items next
NextSilentKind(s) ==
  IF \E i \in 1..Len(silentLog) : silentLog[i].op = "made" /\ silentLog[i].s = s
  THEN "actionItems"
  ELSE "summary"

\* makeSilentRequest(prompt) called in session s
SilentRequestMade(s) ==
  /\ s \in live
  /\ aiState[s] # "CONNECTING"
  /\ quota["silent"] > 0
  /\ Commit(Logged(makeSilentRequest(Counted(St, "silent"), s, NextSilentKind(s),
                                     Transcription(St)),
                   LogEntry("made", s, requestCounter, << >>, << >>)))

\* response.text.delta carrying request_id, on the AI leg of session s
TaggedTextDelta(s, tag, delta) ==
  /\ AiReceives(s, "text.delta")
  /\ Commit(Logged(OnTextDelta(Counted(St, "text.delta"), s, tag, delta),
                   LogEntry("delta", 0, NaN, tag, delta)))

\* response.text.done carrying request_id, on the AI leg of session s
TaggedTextDone(s, tag) ==
  /\ AiReceives(s, "text.done")
  /\ Commit(Logged(OnTextDone(Counted(St, "text.done"), s, tag),
                   LogEntry("done", 0, NaN, tag, << >>)))

\* the caller hangs up
CallerHangsUp(s) ==
  /\ TelephonyReceives(s)
  /\ quota["close"] > 0
  /\ Commit(OnTelephonyClose(Counted(St, "close"), s))

\* the AI endpoint closes the socket or refuses the connection
AiEndpointCloses(s) ==
  /\ s \in live
  /\ aiState[s] \in {"CONNECTING", "OPEN"}
  /\ quota["close"] > 0
  /\ Commit([Counted(St, "close") EXCEPT !.aiState[s] = "CLOSED"])

\* two requests and the deltas of their responses, in every interleaving
CorrelationTraffic ==
  [NoTraffic EXCEPT !["silent"] = MaxSilent, !["text.delta"] = MaxTaggedDelta,
                    !["text.done"] = 1]

\* one request and more completions than requests
SettleTraffic ==
  [NoTraffic EXCEPT !["silent"] = 1, !["text.delta"] = 1,
                    !["text.done"] = MaxTaggedDone]

\* a request, and a leg that closes
TeardownTraffic ==
  [NoTraffic EXCEPT !["silent"] = 1, !["text.done"] = 1, !["close"] = MaxClose]

\* transcripts of two calls, and the request that would carry them
TwoCallTraffic ==
  [NoTraffic EXCEPT !["user"] = MaxTranscripts, !["assistant"] = MaxTranscripts,
                    !["silent"] = 1]

SilentInit ==
  InitFor(Sessions, { CorrelationTraffic, SettleTraffic, TeardownTraffic, TwoCallTraffic })

SilentNext ==
  \E s \in Sessions :
    \/ \E now \in ClockValues : AiOpen(s, now)
    \/ SilentRequestMade(s)
    \/ \E tag \in LooseTags, d \in OrderedDeltas : TaggedTextDelta(s, tag, d)
    \/ \E tag \in RequestIdTags : TaggedTextDone(s, tag)
    \/ UserTranscript(s, TextOk)
    \/ AssistantTranscriptDone(s, TextOk)
    \/ CallerHangsUp(s)
    \/ AiEndpointCloses(s)
    \/ AiCloseCompletes(s)

SilentSpec == SilentInit /\ [][SilentNext]_vars

\* a connection attempt ends and a closing socket gets closed; the script arms
\* no timer for a Silent Request
SilentFairness ==
  \A s \in Sessions :
    /\ WF_vars(\E now \in ClockValues : AiOpen(s, now))
    /\ WF_vars(AiCloseCompletes(s))

FairSilentSpec == SilentSpec /\ SilentFairness

(***************************************************************************)
(* The Redis-backed script (src/index.js, first script).  /incoming-call   *)
(* stores the prompt of the called number in Redis; the /media-stream      *)
(* handler reads it back before it creates the AI socket, and removes it   *)
(* when the telephony connection closes.  The script elides the message    *)
(* handling ("rest remains the same"); what it shows is modelled.          *)
(*   handlerAt   "none": no connection yet     "get": awaiting redis get   *)
(*               "run": listeners registered   "del": awaiting redis del   *)
(*               "end": the handler has nothing left to do                 *)
(***************************************************************************)
Numbers == { "+15550001", "+15550002" }

RInit == InitFor({}, { NoTraffic })

\* /incoming-call for number n; `found` says that both Supabase queries
\* returned a row.  Without one the route answers 500 and stores nothing.
RIncomingCall(n, found) ==
  /\ n \in Numbers
  /\ Commit(IF found THEN [St EXCEPT !.promptKeys = @ \cup {n}] ELSE St)

\* the prompt key expires (EX 3600)
RKeyExpires(n) ==
  /\ n \in promptKeys
  /\ Commit([St EXCEPT !.promptKeys = @ \ {n}])

\* a client connects to /media-stream with ?to=<to>, or without the parameter
RConnected(s, to) ==
  /\ s \notin live
  /\ handlerAt[s] = "none"
  /\ Commit(IF to = Null
            THEN [St EXCEPT !.live = @ \cup {s}, !.tState[s] = "CLOSING",
                            !.handlerAt[s] = "end"]
            ELSE [St EXCEPT !.live = @ \cup {s}, !.tState[s] = "OPEN",
                            !.toNumber[s] = to, !.handlerAt[s] = "get"])

\* redisClient.get returns: with the prompt the handler creates the AI socket
\* and registers its listeners, without it the handler closes the telephony
\* socket and returns
OnRedisGet(st, s) ==
  IF st.toNumber[s] \in st.promptKeys
  THEN [st EXCEPT !.dynamicPrompt[s] = PromptText, !.aiState[s] = "CONNECTING",
                  !.handlerAt[s] = "run"]
  ELSE [st EXCEPT !.resolverFailed[s] = TRUE,
                  !.tState[s] = IF @ = "OPEN" THEN "CLOSING" ELSE @,
                  !.handlerAt[s] = "end"]

RGetReturns(s) ==
  /\ handlerAt[s] = "get"
  /\ Commit(OnRedisGet(St, s))

RAiOpen(s) ==
  /\ s \in live
  /\ aiState[s] = "CONNECTING"
  /\ Commit([St EXCEPT !.aiState[s] = "OPEN"])

RAiClosed(s) ==
  /\ s \in live
  /\ aiState[s] \in {"CONNECTING", "OPEN", "CLOSING"}
  /\ Commit([St EXCEPT !.aiState[s] = "CLOSED"])

\* the telephony socket closes; the 'close' listener exists once the handler
\* has passed the redis get
RTelephonyClosed(s) ==
  /\ TelephonyReceives(s)
  /\ Commit(IF handlerAt[s] = "run"
            THEN [St EXCEPT !.tState[s] = "CLOSED",
                            !.aiState[s] = IF @ = "OPEN" THEN "CLOSING" ELSE @,
                            !.handlerAt[s] = "del"]
            ELSE [St EXCEPT !.tState[s] = "CLOSED"])

\* redisClient.del of the 'close' listener returns
RDelReturns(s) ==
  /\ handlerAt[s] = "del"
  /\ Commit([St EXCEPT !.promptKeys = @ \ {toNumber[s]}, !.handlerAt[s] = "end"])

RNext ==
  \/ \E n \in Numbers, found \in BOOLEAN : RIncomingCall(n, found)
  \/ \E n \in Numbers : RKeyExpires(n)
  \/ \E s \in Sessions :
       \/ \E to \in Numbers \cup {Null} : RConnected(s, to)
       \/ RGetReturns(s)
       \/ RAiOpen(s)
       \/ RAiClosed(s)
       \/ RTelephonyClosed(s)
       \/ RDelReturns(s)

SpecR == RInit /\ [][RNext]_vars

(***************************************************************************)
(* The simple relay (src/unnamed/part_003).  Its handlers are functions of *)
(* the module: setupOpenAIWebSocket's listeners pass them the value its    *)
(* variable streamSid has at the time of the event, and case 'start' of    *)
(* handleTwilioMessage assigns to its own parameter.  The relay of 'media' *)
(* frames and of audio deltas, and the close listener, read as in the      *)
(* other scripts and use their actions.                                    *)
(***************************************************************************)
FALLBACK_SYSTEM_MESSAGE == "You are a helpful AI assistant."

\* no connection yet; a 'start', a 'media' frame and an audio delta to come
SimpleInit ==
  InitFor({}, { [NoTraffic EXCEPT !["start"] = MaxStart, !["media"] = 1, !["delta"] = 1] })

\* handleWebSocketConnection up to its await of fetchSystemMessage
handleWebSocketConnection(s) ==
  /\ s \notin live
  /\ handlerAt[s] = "none"
  /\ Commit([St EXCEPT !.live = @ \cup {s}, !.tState[s] = "OPEN", !.handlerAt[s] = "get"])

\* fetchSystemMessage returns the prompt, or null from its catch;
\* setupOpenAIWebSocket creates the AI socket and registers the listeners
fetchSystemMessageReturns(s, found) ==
  /\ handlerAt[s] = "get"
  /\ Commit([St EXCEPT !.handlerAt[s] = "run",
                       !.aiState[s] = "CONNECTING",
                       !.resolverFailed[s] = ~found,
                       !.dynamicPrompt[s] =
                          IF found THEN PromptText ELSE FALLBACK_SYSTEM_MESSAGE])

\* openAiWs.on('open'): arms the 250 ms timer
SimpleAiOpen(s) ==
  /\ s \in live
  /\ aiState[s] = "CONNECTING"
  /\ Commit([St EXCEPT !.aiState[s] = "OPEN", !.initTimer[s] = "armed"])

\* the 250 ms timer runs sendSessionUpdate
sendSessionUpdate(s) ==
  /\ s \in live
  /\ initTimer[s] = "armed"
  /\ Commit(SendAi([St EXCEPT !.initTimer[s] = "done"], s, SessionUpdate(dynamicPrompt[s])))

\* handleTwilioMessage, case 'start': streamSid = data.start.streamSid sets
\* the function's parameter, which is gone when the function returns
handleTwilioStart(s, sid) ==
  /\ TelephonyReceives(s)
  /\ handlerAt[s] = "run"
  /\ quota["start"] > 0
  /\ Commit(Counted(St, "start"))

SimpleNext ==
  \E s \in Sessions :
    \/ handleWebSocketConnection(s)
    \/ \E found \in BOOLEAN : fetchSystemMessageReturns(s, found)
    \/ SimpleAiOpen(s)
    \/ sendSessionUpdate(s)
    \/ \E sid \in StreamSids : handleTwilioStart(s, sid)
    \/ \E p \in MediaPayloads : Media(s, p)
    \/ \E d \in DeltaPayloads : AudioDelta(s, d)
    \/ AiClosed(s)
    \/ BTelephonyClosed(s)

SimpleSpec == SimpleInit /\ [][SimpleNext]_vars

(***************************************************************************)
(* Farewell detection on caller transcripts (end-call bridge): one call,   *)
(* one transcript segment drawn from FarewellTexts.                        *)
(***************************************************************************)
(* Barge-in under a moving clock (src/unnamed/part_001 315-361, 553-559). *)
(* Date.now() is read at 'open' and at every speech_started; here the two *)
(* readings are drawn independently, so localStartTime and lastDrift take *)
(* several values.  The call is followed up to the barge-in: no farewell, *)
(* no duration timer expiry, no close.                                    *)
(***************************************************************************)
(* Telephony control events.  The end-call bridge logs them in its default *)
(* case (part_001 527-529) and src/index.js breaks out of 'connected' and  *)
(* 'mark' (654-660).  The second bridge of part_001 reads goodbyeDetected  *)
(* on 'mark' (1041-1048): the flag is reset in the handler that sets it    *)
(* (995-1000), so it is false whenever 'mark' is handled; both values are  *)
(* tried here.  Were it true, processEndOfCall would run, whose body and   *)
(* whose catch block both fail on names of the connection handler          *)
(* (makeSilentRequest, openAiWs), and the message handler's catch (1073)   *)
(* logs the rejection.                                                     *)
(***************************************************************************)
(* Two concurrent calls with barge-in (src/unnamed/part_001 315-378).      *)
(* Both media-stream connections are accepted by one process, so the two   *)
(* handlers share the module-level lastAssistantItem (line 68).            *)
(***************************************************************************)
BargeInInit ==
  InitFor({1, 2}, { [NoTraffic EXCEPT !["start"] = MaxStart,
                                      !["response.done"] = MaxBargeIn,
                                      !["speech"] = MaxBargeIn] })

BargeInNext ==
  \E s \in Sessions :
    \/ \E now \in ClockValues : AiOpen(s, now)
    \/ \E sid \in StreamSids, cid \in CallSids : Start(s, sid, cid)
    \/ \E found \in BOOLEAN : LookupReturns(s, found)
    \/ \E id \in ItemIds : ResponseDone(s, [id |-> id, text |-> Undefined])
    \/ \E ms \in OffsetsMs, now \in ClockValues : SpeechStarted(s, ms, now)

BargeInSpec == BargeInInit /\ [][BargeInNext]_vars

(***************************************************************************)
(* Two concurrent calls and the duration limit (src/unnamed/part_001       *)
(* 512-547).  Each call's 'start' arms a timer and stores its handle in    *)
(* the module-level callDurationTimer (line 73).  A call gets one 'start'. *)
(***************************************************************************)
TwoCallInit ==
  InitFor({1, 2}, { [NoTraffic EXCEPT !["start"] = MaxCalls] })

TwoCallNext ==
  \E s \in Sessions :
    \/ \E now \in ClockValues : AiOpen(s, now)
    \/ streamSid[s] = Null /\ \E sid \in StreamSids, cid \in CallSids : Start(s, sid, cid)
    \/ \E found \in BOOLEAN : LookupReturns(s, found)
    \/ \E h \in 1..timerSeq : DurationTimerFires(s, h)
    \/ \E k \in 1..Len(endCalls) : endCalls[k].s = s /\ FinalTimeoutFires(k)
    \/ AiClosed(s)
    \/ TelephonyClosed(s)

TwoCallSpec == TwoCallInit /\ [][TwoCallNext]_vars

(***************************************************************************)
ControlEvents == { "connected", "mark", "stop" }

handleControlEventStopEnds(st, s, event, goodbyeDetected) ==
  IF event = "stop" THEN endCall(st, s, "timer") ELSE st

handleControlEvent(st, s, event, goodbyeDetected) ==
  IF event = "mark" /\ goodbyeDetected
  THEN processEndOfCall(st, s, st.userTranscription \o st.assistantTranscription)
  ELSE st

ControlEvent(s, event, goodbyeDetected) ==
  /\ TelephonyReceives(s)
  /\ quota["control"] > 0
  /\ Commit(handleControlEvent(Counted(St, "control"), s, event, goodbyeDetected))

\* an AI event of type "error": the connection's listener logs it and returns
\* (part_001 423-426, src/index.js 540-543); a final-message listener, if one
\* is installed, matches neither of its two types (part_001 171-181)
handleAiErrorEndsCall(st, s) == endCall(st, s, "response.done")

handleAiError(st, s) == st

AiErrorEvent(s) ==
  /\ AiReceives(s, "error")
  /\ Commit(handleAiError(Counted(St, "error"), s))

ControlInit ==
  InitFor({1}, { [NoTraffic EXCEPT !["start"] = MaxStart, !["media"] = 1,
                                   !["control"] = MaxControl,
                                   !["error"] = MaxAiErrors] })

ControlNext ==
  \E s \in Sessions :
    \/ \E now \in ClockValues : AiOpen(s, now)
    \/ InitTimerFires(s)
    \/ \E found \in BOOLEAN : LookupReturns(s, found)
    \/ \E p \in MediaPayloads : Media(s, p)
    \/ \E sid \in StreamSids, cid \in CallSids : Start(s, sid, cid)
    \/ \E e \in ControlEvents, g \in BOOLEAN : ControlEvent(s, e, g)
    \/ AiErrorEvent(s)
    \/ \E h \in 1..timerSeq : DurationTimerFires(s, h)
    \/ \E k \in 1..Len(endCalls) : endCalls[k].s = s /\ FinalTimeoutFires(k)
    \/ AiClosed(s)
    \/ TelephonyClosed(s)

ControlSpec == ControlInit /\ [][ControlNext]_vars

(***************************************************************************)
ClockReadings == { 0, 1, 5 }

DriftRecords == { << >>, <<0>>, <<3>> }

DriftInit ==
  InitFor({1}, { [NoTraffic EXCEPT !["start"] = MaxStart, !["delta"] = 1,
                                   !["response.done"] = MaxResponseDone,
                                   !["speech"] = MaxSpeech] })

DriftNext ==
  \E s \in Sessions :
    \/ \E now \in ClockReadings : AiOpen(s, now)
    \/ InitTimerFires(s)
    \/ \E found \in BOOLEAN : LookupReturns(s, found)
    \/ \E d \in DeltaPayloads : AudioDelta(s, d)
    \/ \E ms \in OffsetsMs, now \in ClockReadings : SpeechStarted(s, ms, now)
    \/ \E id \in ItemIds : ResponseDone(s, [id |-> id, text |-> Undefined])
    \/ \E sid \in StreamSids, cid \in CallSids : Start(s, sid, cid)

DriftSpec == DriftInit /\ [][DriftNext]_vars

(***************************************************************************)
MaxTextLen == 4

FarewellLetters == { "B", "b", "y", "e" }

\* every text of at most n letters
RECURSIVE LettersUpTo(_)
LettersUpTo(n) ==
  IF n = 0 THEN { << >> }
  ELSE LET shorter == LettersUpTo(n - 1)
       IN  shorter \cup { Append(t, c) : t \in shorter, c \in FarewellLetters }

FarewellSamples ==
  { <<"W","e","l","l",","," ","g","o","o","d","b","y","e","!">>,
    <<"g","o","o","d"," ","j","o","b">>,
    <<"S","e","e"," ","Y","o","u"," ","s","o","o","n">>,
    <<"s","e","e"," "," ","y","o","u">>,
    <<"F","A","R","E","W","E","L","L">>,
    <<"f","a","r","e"," ","w","e","l","l">>,
    <<"T","a","l","k"," ","t","o"," ","y","o","u"," ","l","a","t","e","r">>,
    <<"t","a","k","e"," ","c","a","r","e",".">>,
    <<"S","o"," ","l","o","n","g">>,
    <<"s","o","l","o","n","g">>,
    <<"H","a","v","e"," ","a"," ","g","r","e","a","t"," ","d","a","y">>,
    <<"h","a","v","e"," ","a"," ","g","o","o","d"," ","d","a","y">>,
    <<"b","y"," ","e">> }

FarewellTexts == LettersUpTo(MaxTextLen) \cup FarewellSamples

FarewellInit == InitFor({1}, { [NoTraffic EXCEPT !["user"] = 1] })

FarewellNext ==
  \E s \in Sessions :
    \/ \E now \in ClockValues : AiOpen(s, now)
    \/ \E t \in FarewellTexts : UserTranscript(s, t)

FarewellSpec == FarewellInit /\ [][FarewellNext]_vars

(***************************************************************************)
(* Properties.                                                             *)
(***************************************************************************)

\* C1: inbound relay.  The input_audio_buffer.append messages sent on a
\* session's AI leg are, one for one and in arrival order, the payloads of the
\* 'media' events that arrived while the AI leg was open: nothing dropped,
\* duplicated or reordered.
InboundRelayOneToOne ==
  \A s \in Sessions :
    /\ Len(aiAudio[s]) = Len(mediaIn[s])
    /\ \A i \in 1..Len(aiAudio[s]) : aiAudio[s][i] = AudioAppend(mediaIn[s][i])

\* two different frames have been relayed
InboundRelayWitness ==
  /\ Len(aiAudio[1]) = 2
  /\ mediaIn[1][1] # mediaIn[1][2]

\* the 'media' frames sent on the telephony leg of session s
MediaFramesOut(s) == SelectSeq(tOut[s], LAMBDA f : f.event = "media")

\* C2 (as stated): every non-empty audio delta is forwarded as exactly one
\* 'media' frame with the same payload, in arrival order.
OutboundRelaySamePayload ==
  \A s \in Sessions :
    /\ Len(MediaFramesOut(s)) = Len(deltaIn[s])
    /\ \A i \in 1..Len(deltaIn[s]) : MediaFramesOut(s)[i].payload = deltaIn[s][i]

\* C2 (amended): every non-empty audio delta that arrives while the telephony
\* leg is open is forwarded as exactly one 'media' frame, in arrival order,
\* whose payload is the base64 encoding of the bytes the delta decodes to
\* (the delta itself when it is canonically encoded).
OutboundRelayReencoded ==
  \A s \in Sessions :
    /\ Len(MediaFramesOut(s)) = Len(deltaIn[s])
    /\ \A i \in 1..Len(deltaIn[s]) :
         /\ MediaFramesOut(s)[i].payload = ReencodeBase64(deltaIn[s][i])
         /\ Base64Decode(MediaFramesOut(s)[i].payload) = Base64Decode(deltaIn[s][i])

\* an unpadded delta and then a canonical one have been forwarded
OutboundRelayWitness ==
  /\ deltaIn[1] = << <<"Q","Q">>, <<"Q","Q","=","=">> >>
  /\ Len(MediaFramesOut(1)) = 2

\* C3 (as stated): on a speech_started event received while the
\* last-assistant-item reference is set (both legs open), the bridge sends
\* exactly one conversation.item.truncate for that item at the reported offset
\* and exactly one telephony 'clear', and the reference is null afterwards.
BargeInAlwaysClears ==
  [][\A s \in Sessions, ms \in OffsetsMs, now \in ClockValues :
       ( /\ SpeechStarted(s, ms, now)
         /\ lastAssistantItem # Null
         /\ aiState[s] = "OPEN" /\ tState[s] = "OPEN" )
       => /\ aiCtl'[s] = Append(aiCtl[s], TruncateEvent(lastAssistantItem, ms))
          /\ Len(tOut'[s]) = Len(tOut[s]) + 1
          /\ tOut'[s][Len(tOut'[s])].event = "clear"
          /\ lastAssistantItem' = Null]_vars

\* C3 (amended): on such an event the bridge sends exactly one
\* conversation.item.truncate for that item at the reported offset; it sends
\* exactly one telephony 'clear' (tagged with the stream identifier) when the
\* stream identifier is known and none when it is not; the reference is null
\* afterwards.
BargeInTruncatesAndClears ==
  [][\A s \in Sessions, ms \in OffsetsMs, now \in ClockValues :
       ( /\ SpeechStarted(s, ms, now)
         /\ lastAssistantItem # Null
         /\ aiState[s] = "OPEN" /\ tState[s] = "OPEN" )
       => /\ aiCtl'[s] = Append(aiCtl[s], TruncateEvent(lastAssistantItem, ms))
          /\ tOut'[s] = IF streamSid[s] # Null
                        THEN Append(tOut[s], ClearEvent(streamSid[s]))
                        ELSE tOut[s]
          /\ lastAssistantItem' = Null]_vars

\* a barge-in has truncated an item at a non-zero offset and cleared the stream
BargeInWitness ==
  /\ \E i \in 1..Len(aiCtl[1]) :
        aiCtl[1][i].type = "conversation.item.truncate" /\ aiCtl[1][i].audio_end_ms = 1
  /\ \E i \in 1..Len(tOut[1]) : tOut[1][i] = ClearEvent("MZ1")
  /\ lastAssistantItem = Null

\* the session.update messages sent on the AI leg of session s
SessionUpdatesOut(s) == SelectSeq(aiCtl[s], LAMBDA m : m.type = "session.update")

\* C4: for a call whose 'start' carried a callSid and whose prompt lookup
\* returned the text P, the bridge has sent at most one session.update, its
\* instructions are P, and no conversation.item.create was sent before it.
SessionConfiguredOnceWithPrompt ==
  \A s \in Sessions :
    (callSid[s] # Null /\ dynamicPrompt[s] = PromptText /\ lookups[s] = 0)
    => /\ Len(SessionUpdatesOut(s)) <= 1
       /\ \A i \in 1..Len(aiCtl[s]) :
            /\ aiCtl[s][i].type = "session.update"
                 => aiCtl[s][i].instructions = PromptText
            /\ aiCtl[s][i].type = "conversation.item.create"
                 => \E j \in 1..(i - 1) : aiCtl[s][j].type = "session.update"

\* C5: while the prompt lookup of a started call has not returned, no
\* session.update, conversation.item.create or response.create has been sent
\* on the AI leg.
NothingSentBeforeLookupReturned ==
  \A s \in Sessions :
    (callSid[s] # Null /\ dynamicPrompt[s] = Null)
    => \A i \in 1..Len(aiCtl[s]) :
         aiCtl[s][i].type \notin
           {"session.update", "conversation.item.create", "response.create"}

\* C6: when the duration-limit timer armed at 'start' fires, endCall begins in
\* that very step, whatever the state of the relay and of the conversation:
\* a new endCall invocation exists, and with the AI leg open its final
\* message and the request for a text response have been sent.
DurationLimitBeginsEndCall ==
  [][\A s \in Sessions, h \in 1..timerSeq :
       DurationTimerFires(s, h)
       => /\ Len(endCalls') = Len(endCalls) + 1
          /\ endCalls'[Len(endCalls')].s = s
          /\ endCalls'[Len(endCalls')].trigger = "timer"
          /\ aiState[s] = "OPEN"
               => /\ endCalls'[Len(endCalls')].pc = "final"
                  /\ aiCtl'[s] = aiCtl[s] \o <<FinalMessage, TextResponseCreate(<< >>)>>]_vars

\* the timer has fired and begun endCall while audio was being relayed
DurationLimitWitness ==
  /\ \E k \in 1..Len(endCalls) :
        endCalls[k].trigger = "timer" /\ endCalls[k].pc = "final"
  /\ Len(aiAudio[1]) > 0
  /\ Len(deltaIn[1]) > 0

\* the messages of a given text kind sent on the AI leg of session s
ItemsOut(s, kind) ==
  SelectSeq(aiCtl[s],
            LAMBDA m : m.type = "conversation.item.create" /\ m.text.kind = kind)

\* C7: however many triggers occur, the final message, the summary Silent
\* Request and the action-items Silent Request are each sent at most once on
\* a session's AI leg.
FinalizationAtMostOnce ==
  \A s \in Sessions :
    /\ Len(ItemsOut(s, "final")) <= 1
    /\ Len(ItemsOut(s, "summary")) <= 1
    /\ Len(ItemsOut(s, "actionItems")) <= 1

\* a step in which the bridge itself closes a leg of session s (the close
\* handler of the telephony socket, run when the caller hangs up, excepted)
BridgeCloses(s) ==
  \/ tState[s] = "OPEN" /\ tState'[s] = "CLOSING"
  \/ /\ aiState[s] = "OPEN" /\ aiState'[s] = "CLOSING"
     /\ ~(tState[s] # "CLOSED" /\ tState'[s] = "CLOSED")

\* a Silent Request pair on an AI leg: a summary request, then an action-items
\* request
SilentPairSent(ctl) ==
  \E i, j \in 1..Len(ctl) :
    /\ i < j
    /\ ctl[i].type = "conversation.item.create" /\ ctl[i].text.kind = "summary"
    /\ ctl[j].type = "conversation.item.create" /\ ctl[j].text.kind = "actionItems"

\* C8: after a farewell of the assistant, when the final message is answered,
\* the bridge closes neither leg before it has issued the two Silent Requests,
\* summary then action items, on the AI leg.
FarewellClosesAfterSilentPair ==
  [][\A s \in Sessions :
       ( /\ BridgeCloses(s)
         /\ \E k \in 1..Len(endCalls') :
              /\ endCalls'[k].s = s
              /\ endCalls'[k].trigger = "assistant"
              /\ endCalls'[k].finalOk )
       => SilentPairSent(aiCtl'[s])]_vars

\* C9: in a finalisation the bridge closes no leg before the summary exchange
\* has ended: whenever the bridge closes a leg of a session whose assistant
\* has said goodbye, the summary request has been sent on that session's AI
\* leg.
CloseAfterSummaryExchange ==
  [][\A s \in Sessions :
       (BridgeCloses(s) /\ assistantSaidGoodbye[s])
       => \E i \in 1..Len(aiCtl[s]) : aiCtl[s][i] = SummaryRequest]_vars

\* C10: once endCall has started for a session, both legs of the session are
\* eventually closed.
EndCallLeadsToBothLegsClosed ==
  \A s \in Sessions :
    (\E k \in 1..Len(endCalls) : endCalls[k].s = s)
      ~> (tState[s] = "CLOSED" /\ aiState[s] = "CLOSED")

\* C11: closing either leg closes the other: once a session's telephony leg
\* has closed its AI leg is closed or closing, and once its AI leg has closed
\* (or could not be established) its telephony leg is closed or closing.
LegsCloseTogether ==
  \A s \in live :
    /\ tState[s] = "CLOSED" => aiState[s] \in {"CLOSING", "CLOSED"}
    /\ aiState[s] = "CLOSED" => tState[s] \in {"CLOSING", "CLOSED"}

\* Reading silentLog: the requests made, and what the AI leg delivered for a
\* request between its making and its first completion.
MadeEntries == { i \in 1..Len(silentLog) : silentLog[i].op = "made" }

CompletionsOf(i) ==
  { j \in (i + 1)..Len(silentLog) :
      /\ silentLog[j].op = "done"
      /\ silentLog[j].tag # << >>
      /\ parseInt(silentLog[j].tag) = silentLog[i].id }

FirstCompletion(i) == CHOOSE j \in CompletionsOf(i) : \A k \in CompletionsOf(i) : j <= k

ResolutionsOf(id) == { k \in 1..Len(silentResolved) : silentResolved[k].id = id }

RECURSIVE JoinDeltas(_)
JoinDeltas(entries) ==
  IF entries = << >> THEN << >> ELSE Head(entries).delta \o JoinDeltas(Tail(entries))

DeltasBetween(i, j) ==
  SelectSeq(SubSeq(silentLog, i + 1, j - 1), LAMBDA e : e.op = "delta")

SilentRequestSettledOnce ==
  \A i \in MadeEntries :
    /\ (CompletionsOf(i) = {}) <=> (silentLog[i].id \in DOMAIN silentRequests)
    /\ Cardinality(ResolutionsOf(silentLog[i].id)) = IF CompletionsOf(i) = {} THEN 0 ELSE 1

\* a second text.done and a late delta arrived for a request already resolved
SettledOnceWitness ==
  \E i \in MadeEntries :
    /\ Cardinality(CompletionsOf(i)) = 2
    /\ \E d \in (FirstCompletion(i) + 1)..Len(silentLog) :
         /\ silentLog[d].op = "delta"
         /\ silentLog[d].tag = toString(silentLog[i].id)

\* the pending Silent Requests made by session s
PendingOf(s) ==
  { silentLog[i].id : i \in { m \in MadeEntries : /\ silentLog[m].s = s
                                                 /\ silentLog[m].id \in DOMAIN silentRequests } }

SilentIdsIncrease ==
  /\ \A i \in MadeEntries, j \in MadeEntries : i < j => silentLog[i].id < silentLog[j].id
  /\ \A id \in DOMAIN silentRequests : id < requestCounter

\* two sessions each made a request, the second while the first was pending
SilentIdsWitness ==
  \E i \in MadeEntries, j \in MadeEntries :
    /\ i < j
    /\ silentLog[i].s # silentLog[j].s
    /\ silentLog[i].id \in DOMAIN silentRequests
    /\ silentLog[j].id \in DOMAIN silentRequests

HiddenQuery(m) ==
  m.type = "conversation.item.create" /\ m.text.kind \in {"summary", "actionItems"}

CallTranscript(s) ==
  [ user |-> userTranscription, assistant |-> assistantTranscription ]

\* C18: a transcript event of one call leaves the accumulated transcripts of
\* every other live call as they were.
TranscriptsIsolated ==
  [][\A s \in live, o \in live :
       (s # o /\ (UserTranscript(s, TextOk) \/ AssistantTranscriptDone(s, TextOk)))
         => CallTranscript(o)' = CallTranscript(o)]_vars

\* C19: a message that cannot be parsed, on either leg, is discarded: the step
\* that handles it sends nothing, changes no state and closes no leg.
MalformedMessageDiscarded ==
  [][\A s \in Sessions :
       (MalformedAiMessage(s) \/ MalformedTelephonyMessage(s)) => UNCHANGED vars]_vars

\* C20: a prompt lookup that finds nothing is not fatal: the step in which the
\* lookup returns empty-handed leaves the telephony leg as it was and goes on
\* to create the AI leg, so that the session can be configured.
PromptMissKeepsCallGoing ==
  [][\A s \in Sessions :
       (RGetReturns(s) /\ toNumber[s] \notin promptKeys)
         => (tState'[s] = tState[s] /\ aiState'[s] = "CONNECTING")]_vars

\* some phrase of the vocabulary occurs in the text at some offset, letter
\* case apart
PhraseInside(text) ==
  \E k \in 1..Len(goodbyes) : \E off \in 0..Len(text) :
    /\ off + Len(goodbyes[k]) <= Len(text)
    /\ \A j \in 1..Len(goodbyes[k]) : LowerChar(text[off + j]) = goodbyes[k][j]

\* C21: checkForGoodbye(text) is true exactly when the lower-cased text
\* contains a phrase of the vocabulary: the caller transcript began an endCall
\* if and only if it does; "Well, goodbye!" matches and "good job" does not.
GoodbyeIffPhraseInside ==
  /\ (endCalls # << >>) <=> PhraseInside(userTranscription)
  /\ checkForGoodbye(<<"W","e","l","l",","," ","g","o","o","d","b","y","e","!">>)
  /\ ~checkForGoodbye(<<"g","o","o","d"," ","j","o","b">>)

\* the caller said "Well, goodbye!" and an endCall began
GoodbyeWitness ==
  /\ userTranscription = <<"W","e","l","l",","," ","g","o","o","d","b","y","e","!">>
  /\ endCalls # << >>

\* C22: once the caller has said a farewell, the completion of the
\* assistant's next reply (response.done) finds or puts the session in
\* finalization: the summary has been requested or the telephony leg is being
\* closed.
CallerFarewellFinalizes ==
  [][\A s \in live :
       ( /\ checkForGoodbye(userTranscription)
         /\ \E id \in ItemIds, t \in Texts \cup {Undefined} :
              BResponseDone(s, [id |-> id, text |-> t]) )
         => (summarySent' \/ tState'[s] # "OPEN")]_vars

\* C23: after a farewell of the assistant the telephony leg is eventually
\* closed or closing, whether or not an audio delta follows the farewell.
AssistantFarewellCloses ==
  \A s \in Sessions : assistantSaidGoodbye[s] ~> (tState[s] # "OPEN")

\* C24: an endCall begun by a farewell leaves every armed duration-limit
\* timer armed.
FarewellKeepsDurationTimer ==
  [][( /\ Len(endCalls') > Len(endCalls)
       /\ endCalls'[Len(endCalls')].trigger # "timer" )
       => durTimers' = durTimers]_vars

\* everything but the traffic budget
Fields(st) == [st EXCEPT !.quota = NoTraffic]

\* C25: a 'media' event that meets an AI leg that is not open changes nothing
\* and sends nothing, and an append message is only ever sent in the step of
\* a 'media' event that meets an open AI leg: never when the leg opens, never
\* later.
MediaOutsideOpenDropped ==
  [][\A s \in Sessions :
       /\ (aiState[s] # "OPEN" /\ \E p \in MediaPayloads : Media(s, p))
            => Fields(St)' = Fields(St)
       /\ aiAudio'[s] # aiAudio[s]
            => (aiState[s] = "OPEN" /\ \E p \in MediaPayloads : Media(s, p))]_vars

\* both frames of the call arrived before the AI leg opened, and the leg is
\* open now
MediaDroppedWitness ==
  /\ quota["media"] = 0
  /\ mediaIn[1] = << >>
  /\ aiState[1] = "OPEN"
  /\ tState[1] = "OPEN"

\* session s has an initialization or a finalization suspended: a prompt
\* lookup, the final-message exchange, or a Silent Request
Suspended(s) ==
  \/ lookups[s] > 0
  \/ \E k \in 1..Len(endCalls) : endCalls[k].s = s /\ endCalls[k].pc = "final"
  \/ DOMAIN silentRequests # {}

\* C26: while an initialization or finalization of the session is suspended,
\* a 'media' event that meets an open AI leg is forwarded and an audio delta
\* that meets an open telephony leg is relayed, in the step that handles it.
RelayWhileSuspended ==
  [][\A s \in Sessions : Suspended(s) =>
       /\ \A p \in MediaPayloads :
            (aiState[s] = "OPEN" /\ Media(s, p))
              => aiAudio'[s] = Append(aiAudio[s], AudioAppend(p))
       /\ \A d \in DeltaPayloads \ {<< >>} :
            (tState[s] = "OPEN" /\ AudioDelta(s, d))
              => tOut'[s] = Append(tOut[s], AudioDeltaFrame(St, s, d))]_vars

\* a delta was relayed after 'start' while the lookup begun by 'start' had
\* not returned; frames went to the AI leg, and an endCall is waiting too
RelayWhileSuspendedWitness ==
  /\ lookups[1] = 1
  /\ initTimer[1] # "done"
  /\ \E i \in 1..Len(tOut[1]) : tOut[1][i].event = "media" /\ tOut[1][i].streamSid # Null
  /\ aiAudio[1] # << >>
  /\ \E k \in 1..Len(endCalls) : endCalls[k].pc = "final"

\* C27: the stream identifier is null until the first 'start' event, and
\* every 'media' frame sent on the telephony leg once 'start' has arrived
\* carries the identifier that 'start' supplied.
StreamSidTracked ==
  /\ [](\A s \in Sessions : quota["start"] = MaxStart => streamSid[s] = Null)
  /\ [][\A s \in Sessions : \A d \in DeltaPayloads \ {<< >>} :
          (quota["start"] < MaxStart /\ tState[s] = "OPEN" /\ AudioDelta(s, d))
            => tOut'[s][Len(tOut'[s])].streamSid \in StreamSids]_vars

\* a state with the drift bookkeeping blanked: what is left is every queue,
\* connection state, timer and field that a message can be read from
Emitted(st) == [st EXCEPT !.localStartTime = << >>, !.lastDrift = << >>]

\* C28: drift is diagnostic only.  Whatever the local clock read at 'open'
\* and at speech_started, and whatever drift was recorded before, barge-in
\* handling and audio relay send the same messages on the same legs in the
\* same order and leave every other field the same.
DriftIsDiagnostic ==
  \A s \in live :
    localStartTime # << >> =>
      /\ \A ms \in OffsetsMs :
            LET here == Emitted(handleSpeechStartedEvent(St, s, ms, 0))
            IN  \A t0 \in ClockReadings, t \in ClockReadings, d \in DriftRecords :
                  Emitted(handleSpeechStartedEvent(
                            [St EXCEPT !.localStartTime = <<t0>>, !.lastDrift = d], s, ms, t))
                    = here
      /\ \A delta \in DeltaPayloads :
            LET here == Emitted(OnAudioDelta(St, s, delta))
            IN  \A t0 \in ClockReadings, d \in DriftRecords :
                  Emitted(OnAudioDelta(
                            [St EXCEPT !.localStartTime = <<t0>>, !.lastDrift = d], s, delta))
                    = here

\* a barge-in has recorded a drift, cut the assistant item short and cleared
\* the telephony buffer after assistant audio had been relayed
DriftWitness ==
  /\ lastDrift # << >>
  /\ localStartTime # << >>
  /\ \E i \in 1..Len(aiCtl[1]) : aiCtl[1][i].type = "conversation.item.truncate"
  /\ \E i \in 1..Len(tOut[1]) : tOut[1][i].event = "clear"
  /\ \E i \in 1..Len(tOut[1]) : tOut[1][i].event = "media"

\* C29: a session.update is on an AI connection only once the startup delay
\* timer armed at that connection's 'open' event has expired.
UpdateAfterStartupDelay ==
  \A s \in Sessions :
    (\E i \in 1..Len(aiCtl[s]) : aiCtl[s][i].type = "session.update")
      => initTimer[s] = "done"

\* C30: a telephony control event other than 'start' and 'media' is ignored:
\* it sends nothing on either leg, starts no finalization and leaves every
\* field as it was.
ControlEventIgnored ==
  [][\A s \in Sessions, e \in ControlEvents, g \in BOOLEAN :
       ControlEvent(s, e, g) =>
         /\ aiCtl' = aiCtl /\ aiAudio' = aiAudio /\ tOut' = tOut
         /\ endCalls' = endCalls /\ tState' = tState /\ aiState' = aiState
         /\ Fields(St)' = Fields(St)]_vars

\* both control events were handled during a configured call, after media
\* had been forwarded, and the call goes on: no finalization, both legs open
ControlEventWitness ==
  /\ quota["control"] = 0
  /\ streamSid[1] # Null
  /\ aiState[1] = "OPEN" /\ tState[1] = "OPEN"
  /\ aiAudio[1] # << >>
  /\ \E i \in 1..Len(aiCtl[1]) : aiCtl[1][i].type = "session.update"
  /\ endCalls = << >>
  /\ callDurationTimer # 0

Truncates(msgs) == { i \in 1..Len(msgs) : msgs[i].type = "conversation.item.truncate" }

TruncatesSent == Cardinality(Truncates(aiCtl[1])) + Cardinality(Truncates(aiCtl[2]))

\* C31: no stale truncation.  A speech_started event sends at most one
\* truncate and clears the item reference; with the reference cleared it
\* sends no truncate; only a response.done that reports an assistant item
\* sets the reference again.  So at most one truncate is sent between two
\* such response.done events, and never more truncates than response.done
\* events were received.
NoStaleTruncation ==
  /\ [](TruncatesSent <= MaxBargeIn - quota["response.done"])
  /\ [][\A s \in Sessions, ms \in OffsetsMs, now \in ClockValues :
          SpeechStarted(s, ms, now) =>
            /\ lastAssistantItem' = Null
            /\ lastAssistantItem = Null => aiCtl' = aiCtl
            /\ lastAssistantItem # Null
                 => /\ Len(aiCtl'[s]) <= Len(aiCtl[s]) + 1
                    /\ \A s2 \in Sessions \ {s} : aiCtl'[s2] = aiCtl[s2]]_vars
  /\ [][(lastAssistantItem = Null /\ lastAssistantItem' # Null)
          => \E s \in Sessions, id \in ItemIds :
               ResponseDone(s, [id |-> id, text |-> Undefined])]_vars

\* one response.done, then two speech_started events on the same call after
\* 'start': one truncate and two 'clear' frames went out
NoStaleTruncationWitness ==
  /\ quota["response.done"] = MaxBargeIn - 1
  /\ quota["speech"] = 0
  /\ Cardinality(Truncates(aiCtl[1])) = 1
  /\ Cardinality({ i \in 1..Len(tOut[1]) : tOut[1][i].event = "clear" }) = 2
  /\ lastAssistantItem = Null

\* the prompts of the kind given among the messages sent on an AI leg
HiddenQueries(msgs, kind) ==
  { i \in 1..Len(msgs) : /\ msgs[i].type = "conversation.item.create"
                         /\ msgs[i] = SilentConversationItem(kind, msgs[i].text.body) }

Greetings(msgs) == { i \in 1..Len(msgs) : msgs[i] = InitialConversationItem }

\* C33: per call the opening conversation.item.create is sent at most once,
\* its response.create follows it directly, and a session.update precedes it.
OpeningTurnOnce ==
  \A s \in Sessions :
    /\ Cardinality(Greetings(aiCtl[s])) <= 1
    /\ \A i \in Greetings(aiCtl[s]) :
          /\ \E j \in 1..(i - 1) : aiCtl[s][j].type = "session.update"
          /\ i < Len(aiCtl[s]) /\ aiCtl[s][i + 1] = ResponseCreate

SummaryRequests(msgs) == { i \in 1..Len(msgs) : msgs[i] = SummaryRequest }

\* C34: in the summary-request bridge a call whose assistant has said
\* farewell on an open AI leg has its summary request on that leg exactly
\* once, followed directly by response.create; no other call has one.
SummaryRequestedOncePerFarewell ==
  \A s \in Sessions :
    /\ Cardinality(SummaryRequests(aiCtl[s])) <= 1
    /\ \A i \in SummaryRequests(aiCtl[s]) :
          assistantSaidGoodbye[s] /\ i < Len(aiCtl[s]) /\ aiCtl[s][i + 1] = ResponseCreate
    /\ (assistantSaidGoodbye[s] /\ aiLate[s] = {})
         => SummaryRequests(aiCtl[s]) # {}

PendingCloseTimers(s) == { t \in durTimers : t.s = s }

\* C35: audio-inactivity timer of the summary-request bridge.  At most one
\* close timer is pending per call; an audio delta cancels the pending one
\* and arms a new one exactly when the assistant has said farewell; the
\* timer that fires is the one armed by the last audio delta.
InactivityTimer ==
  /\ [](\A s \in Sessions : Cardinality(PendingCloseTimers(s)) <= 1)
  /\ [][\A s \in Sessions, d \in DeltaPayloads \ {<< >>} :
          BAudioDelta(s, d) =>
            /\ PendingCloseTimers(s) \cap PendingCloseTimers(s)' = {}
            /\ PendingCloseTimers(s)' # {} <=> assistantSaidGoodbye[s]]_vars
  /\ [][\A s \in Sessions :
          BAudioDeltaTimeoutFires(s) =>
            PendingCloseTimers(s) = {[id |-> audioDeltaTimeout[s], s |-> s]}]_vars
  /\ [][\A s \in Sessions :
          PendingCloseTimers(s) \ PendingCloseTimers(s)' # {}
            => (BAudioDeltaTimeoutFires(s) \/ \E d \in DeltaPayloads : BAudioDelta(s, d))]_vars

\* after the farewell two audio deltas arrived: the second cancelled the
\* timer of the first, and its own timer has closed the telephony leg
InactivityTimerWitness ==
  /\ assistantSaidGoodbye[1]
  /\ timerSeq = 2
  /\ audioDeltaTimeout[1] = 2
  /\ durTimers = {}
  /\ tState[1] # "OPEN"

\* C36: once a call's telephony leg has closed, no duration-limit timer is
\* pending for that call and none fires endCall for it.
ClosedCallTimerCancelled ==
  /\ [](\A s \in Sessions :
          (tState[s] = "CLOSED" /\ streamSid[s] # Null)
            => \A t \in durTimers : t.s # s)
  /\ [][\A s \in Sessions, h \in 1..timerSeq :
          DurationTimerFires(s, h) => tState[s] # "CLOSED"]_vars

\* what a speech_started event met now would send on the AI leg of call s
BargeInSends(st, s) == handleSpeechStartedEvent(st, s, 0, 0).aiCtl[s]

\* C37: a response.done of one call neither causes nor suppresses a truncate
\* on another call: what a barge-in on any other call would send on its AI
\* leg is the same before and after the event.
TruncatePerCall ==
  [][\A s \in Sessions, id \in ItemIds :
       ResponseDone(s, [id |-> id, text |-> Undefined])
         => \A s2 \in Sessions \ {s} : BargeInSends(St', s2) = BargeInSends(St, s2)]_vars

\* C38: no 'media' frame sent on the telephony leg carries a null stream
\* identifier.
NoNullStreamSidFrame ==
  \A s \in Sessions : \A i \in 1..Len(tOut[s]) :
    tOut[s][i].event = "media" => tOut[s][i].streamSid # Null

\* C39: after a leg has closed the bridge hands it nothing more: no step
\* calls send on a telephony socket or an AI socket that is CLOSED.
NothingSentAfterClose ==
  [][\A s \in Sessions :
       /\ tState[s] = "CLOSED" => tLate'[s] = tLate[s]
       /\ aiState[s] = "CLOSED" => aiLate'[s] = aiLate[s]]_vars

\* C40: an AI event of type 'error' is only logged: it sends nothing on
\* either leg, closes no leg, starts no finalization, and leaves every field
\* as it was, a pending final-message exchange included.
AiErrorOnlyLogged ==
  [][\A s \in Sessions :
       AiErrorEvent(s) =>
         /\ aiCtl' = aiCtl /\ tOut' = tOut /\ aiLate' = aiLate /\ tLate' = tLate
         /\ aiState' = aiState /\ tState' = tState
         /\ endCalls' = endCalls
         /\ Fields(St)' = Fields(St)]_vars

\* the error event was handled while the final message of an endCall begun
\* by the duration limit was waiting for its answer; both legs are open
AiErrorWitness ==
  /\ quota["error"] = 0
  /\ aiState[1] = "OPEN" /\ tState[1] = "OPEN"
  /\ streamSid[1] # Null
  /\ \E k \in 1..Len(endCalls) : endCalls[k].pc = "final" /\ endCalls[k].trigger = "timer"

====
